---- MODULE Spec2Model ----
(***************************************************************************)
(* Model of pytorch_lightning/callbacks/device_stats_monitor.py:           *)
(* the DeviceStatsMonitor callback (setup, on_train_batch_start,           *)
(* on_train_batch_end, _get_and_log_device_stats) and the module-level     *)
(* helpers _prefix_metric_keys and prefix_metric_keys.                     *)
(*                                                                         *)
(* Strings are sequences of tokens, so that `+` is \o.  A Python dict is   *)
(* a sequence of items [k, v] with pairwise distinct keys, in insertion    *)
(* order.  The collaborators (trainer, accelerator, loggers, process       *)
(* metrics provider) are the environment: what they return is an input of  *)
(* the handler, and every call the handler makes on them is appended to    *)
(* the trace `calls`.                                                      *)
(***************************************************************************)
EXTENDS Integers, Sequences, FiniteSets, TLC

\* ---------------------------------------------------------------- bounds
MaxLen == 1        \* most items in a dict returned by a collaborator
MaxLoggers == 2    \* most loggers configured on the trainer
MaxStep == 1       \* largest trainer.global_step

\* ------------------------------------------------------------ value sets
CpuStatsValues == {"None", "True", "False"}   \* Optional[bool]
DeviceTypes == {"cpu", "cuda"}
Separators == {<<"/">>, <<".">>}
Keys == {<<"a">>, <<"b">>, <<"on_train_batch_start", "/", "a">>}
Values == {1, 2}
Prefixes == {<<"p">>, <<"on_train_batch_start">>}
Errors == {"RuntimeError", "OSError"}
Items == [k : Keys, v : Values]

UniqueKeys(d) == \A i, j \in DOMAIN d : d[i].k = d[j].k => i = j
Dicts == {d \in UNION {[1..n -> Items] : n \in 0..MaxLen} : UniqueKeys(d)}
LoggerConfigs == UNION {[1..n -> Separators] : n \in 0..MaxLoggers}

\* what a query of a collaborator does: return a dict or raise
Returned(d) == [ok |-> TRUE, val |-> d, err |-> "none"]
Raised(e) == [ok |-> FALSE, val |-> <<>>, err |-> e]
QueryOutcomes == {Returned(d) : d \in Dicts} \cup {Raised(e) : e \in Errors}
NoOutcome == Returned(<<>>)

VARIABLES cpu_stats, loggers, should_update_logs, root_device, global_step,
          setup_ok, op, calls, raised, args, ret

vars == <<cpu_stats, loggers, should_update_logs, root_device, global_step,
          setup_ok, op, calls, raised, args, ret>>

trainer == <<loggers, should_update_logs, root_device, global_step>>

\* ------------------------------------------------------------ dict model
EmptyDict == <<>>

dict_keys(d) == {d[i].k : i \in DOMAIN d}

dict_get(d, k) == d[CHOOSE i \in DOMAIN d : d[i].k = k].v

\* d[k] = v : overwrite in place, or insert at the end
dict_setitem(d, k, v) ==
  IF k \in dict_keys(d)
  THEN [i \in DOMAIN d |-> IF d[i].k = k THEN [k |-> k, v |-> v] ELSE d[i]]
  ELSE Append(d, [k |-> k, v |-> v])

dict_update_first_wins(d, other) ==
  LET RECURSIVE go(_, _)
      go(acc, i) == IF i > Len(other) THEN acc
                    ELSE go(IF other[i].k \in dict_keys(acc) THEN acc
                            ELSE dict_setitem(acc, other[i].k, other[i].v), i + 1)
  IN go(d, 1)

\* d.update(other)
dict_update(d, other) ==
  LET RECURSIVE go(_, _)
      go(acc, i) == IF i > Len(other) THEN acc
                    ELSE go(dict_setitem(acc, other[i].k, other[i].v), i + 1)
  IN go(d, 1)

_prefix_metric_keys_twice(metrics_dict, prefix, separator) ==
  LET RECURSIVE go(_, _)
      go(acc, i) == IF i > Len(metrics_dict) THEN acc
                    ELSE go(dict_setitem(acc,
                                         prefix \o separator \o prefix \o separator
                                                \o metrics_dict[i].k,
                                         metrics_dict[i].v), i + 1)
  IN go(EmptyDict, 1)

\* {prefix + separator + k: v for k, v in metrics_dict.items()}
_prefix_metric_keys(metrics_dict, prefix, separator) ==
  LET RECURSIVE go(_, _)
      go(acc, i) == IF i > Len(metrics_dict) THEN acc
                    ELSE go(dict_setitem(acc,
                                         prefix \o separator \o metrics_dict[i].k,
                                         metrics_dict[i].v), i + 1)
  IN go(EmptyDict, 1)

\* --------------------------------------------------------- call records
Call(fn, device, logger, metrics, step, outcome) ==
  [fn |-> fn, device |-> device, logger |-> logger, metrics |-> metrics,
   step |-> step, outcome |-> outcome]

\* trainer.accelerator.get_device_stats(device)
GetDeviceStatsCall(device, outcome) ==
  Call("get_device_stats", device, 0, EmptyDict, -1, outcome)
\* get_cpu_process_metrics()
GetCpuProcessMetricsCall(outcome) ==
  Call("get_cpu_process_metrics", "", 0, EmptyDict, -1, outcome)
\* trainer.loggers[i].log_metrics(metrics, step=step); the logger is taken to
\* return normally
LogMetricsCall(i, metrics, step) ==
  Call("log_metrics", "", i, metrics, step, NoOutcome)
\* rank_zero_deprecation(message): one deprecation notice
rank_zero_deprecation ==
  <<Call("rank_zero_deprecation", "", 0, EmptyDict, -1, NoOutcome)>>

\* what running a handler did: the calls it made, in order, and what it raised
Result(cs, r) == [calls |-> cs, raised |-> r]

\* ------------------------------------------------- DeviceStatsMonitor
NoLoggers_unchecked(lg) == FALSE

\* `not trainer.loggers`
NoLoggers(lg) == Len(lg) = 0

\* DeviceStatsMonitor.setup
setup(lg) ==
  IF NoLoggers(lg) THEN Result(<<>>, "MisconfigurationException")
  ELSE Result(<<>>, "none")

ShouldSkip_never(should) == FALSE

\* `not trainer._logger_connector.should_update_logs`
ShouldSkip(should) == ~should

QueriesDevice_only_true(cs) == cs = "True"

QueriesDevice_always(cs) == TRUE

\* `self.cpu_stats is None or self.cpu_stats`
QueriesDevice(cs) == cs = "None" \/ cs = "True"

QueriesProcess_any_device(cs, device) == cs = "True"

\* `self.cpu_stats and device.type != "cpu"`
QueriesProcess(cs, device) == cs = "True" /\ device # "cpu"

LogLoop_first_separator(device_stats, key, lg, step) ==
  [i \in DOMAIN lg |->
     LogMetricsCall(i, _prefix_metric_keys(device_stats, key, lg[1]), step)]

\* for logger in trainer.loggers: ... logger.log_metrics(prefixed, step=global_step)
LogLoop(device_stats, key, lg, step) ==
  [i \in DOMAIN lg |->
     LogMetricsCall(i, _prefix_metric_keys(device_stats, key, lg[i]), step)]

Sample_swallow_errors(cs, device, lg, step, key, dr, pr) ==
  LET qd == QueriesDevice(cs)
      c1 == IF qd THEN <<GetDeviceStatsCall(device, dr)>> ELSE <<>>
      s1 == IF qd /\ dr.ok THEN dr.val ELSE EmptyDict
      qp == QueriesProcess(cs, device)
      c2 == IF qp THEN c1 \o <<GetCpuProcessMetricsCall(pr)>> ELSE c1
      s2 == IF qp /\ pr.ok THEN dict_update(s1, pr.val) ELSE s1
  IN Result(c2 \o LogLoop(s2, key, lg, step), "none")

\* lines 78-91 of _get_and_log_device_stats; dr and pr are what the device
\* query and the process query do if they are called
Sample(cs, device, lg, step, key, dr, pr) ==
  LET qd == QueriesDevice(cs)
      c1 == IF qd THEN <<GetDeviceStatsCall(device, dr)>> ELSE <<>>
  IN IF qd /\ ~dr.ok THEN Result(c1, dr.err)
     ELSE LET s1 == IF qd THEN dr.val ELSE EmptyDict
              qp == QueriesProcess(cs, device)
              c2 == IF qp THEN c1 \o <<GetCpuProcessMetricsCall(pr)>> ELSE c1
          IN IF qp /\ ~pr.ok THEN Result(c2, pr.err)
             ELSE LET s2 == IF qp THEN dict_update(s1, pr.val) ELSE s1
                  IN Result(c2 \o LogLoop(s2, key, lg, step), "none")

\* DeviceStatsMonitor._get_and_log_device_stats
_get_and_log_device_stats(cs, lg, should, device, step, key, dr, pr) ==
  IF NoLoggers(lg) THEN Result(<<>>, "MisconfigurationException")
  ELSE IF ShouldSkip(should) THEN Result(<<>>, "none")
  ELSE Sample(cs, device, lg, step, key, dr, pr)

prefix_metric_keys_slash(metrics_dict, prefix) ==
  [calls |-> rank_zero_deprecation,
   ret |-> _prefix_metric_keys(metrics_dict, prefix, <<"/">>)]

\* prefix_metric_keys: the deprecated helper
prefix_metric_keys(metrics_dict, prefix) ==
  [calls |-> rank_zero_deprecation,
   ret |-> _prefix_metric_keys(metrics_dict, prefix, <<>>)]

\* ---------------------------------------------------------------- state
NoArgs == [metrics_dict |-> EmptyDict, prefix |-> <<>>]
SamplingOps == {"on_train_batch_start", "on_train_batch_end"}

Init ==
  /\ cpu_stats \in CpuStatsValues
  /\ loggers \in LoggerConfigs
  /\ should_update_logs \in BOOLEAN
  /\ root_device \in DeviceTypes
  /\ global_step = 0
  /\ setup_ok = FALSE
  /\ op = "__init__"
  /\ calls = <<>>
  /\ raised = "none"
  /\ args = NoArgs
  /\ ret = EmptyDict

\* The callback runs inline on the thread that drives the host loop: a hook is
\* entered only while the host has control, and runs to its return or raise.
HostHasControl == op \in {"__init__", "host"}

\* the handler returned or raised: record what it did
Ran(name, res, a, r) ==
  /\ HostHasControl
  /\ op' = name
  /\ calls' = res.calls
  /\ raised' = res.raised
  /\ args' = a
  /\ ret' = r

Setup ==
  /\ Ran("setup", setup(loggers), NoArgs, EmptyDict)
  /\ setup_ok' = (setup_ok \/ ~NoLoggers(loggers))
  /\ UNCHANGED <<cpu_stats, trainer>>

\* what the collaborators do during one sampling call; an outcome is drawn
\* only for a query this configuration can make
DeviceOutcomes == IF QueriesDevice(cpu_stats) THEN QueryOutcomes ELSE {NoOutcome}
ProcessOutcomes ==
  IF QueriesProcess(cpu_stats, root_device) THEN QueryOutcomes ELSE {NoOutcome}

OnTrainBatchStart ==
  \E dr \in DeviceOutcomes, pr \in ProcessOutcomes :
    /\ Ran("on_train_batch_start",
           _get_and_log_device_stats(cpu_stats, loggers, should_update_logs,
                                     root_device, global_step,
                                     <<"on_train_batch_start">>, dr, pr),
           NoArgs, EmptyDict)
    /\ UNCHANGED <<cpu_stats, trainer, setup_ok>>

OnTrainBatchEnd ==
  \E dr \in DeviceOutcomes, pr \in ProcessOutcomes :
    /\ Ran("on_train_batch_end",
           _get_and_log_device_stats(cpu_stats, loggers, should_update_logs,
                                     root_device, global_step,
                                     <<"on_train_batch_end">>, dr, pr),
           NoArgs, EmptyDict)
    /\ UNCHANGED <<cpu_stats, trainer, setup_ok>>

PrefixMetricKeys ==
  \E m \in Dicts, p \in Prefixes :
    LET r == prefix_metric_keys(m, p)
    IN /\ Ran("prefix_metric_keys", Result(r.calls, "none"),
              [NoArgs EXCEPT !.metrics_dict = m, !.prefix = p], r.ret)
       /\ UNCHANGED <<cpu_stats, trainer, setup_ok>>

\* the host loop takes control back, between two calls of the callback
HostIdle ==
  /\ op' = "host"
  /\ calls' = <<>>
  /\ raised' = "none"
  /\ args' = NoArgs
  /\ ret' = EmptyDict

HostContinue ==
  /\ ~HostHasControl
  /\ HostIdle
  /\ UNCHANGED <<cpu_stats, trainer, setup_ok>>

HostSetLoggers ==
  /\ \E lg \in LoggerConfigs : lg # loggers /\ loggers' = lg
  /\ HostIdle
  /\ UNCHANGED <<cpu_stats, should_update_logs, root_device, global_step, setup_ok>>

HostSetShouldUpdateLogs ==
  /\ should_update_logs' = ~should_update_logs
  /\ HostIdle
  /\ UNCHANGED <<cpu_stats, loggers, root_device, global_step, setup_ok>>

HostAdvanceStep ==
  /\ global_step < MaxStep
  /\ global_step' = global_step + 1
  /\ HostIdle
  /\ UNCHANGED <<cpu_stats, loggers, should_update_logs, root_device, setup_ok>>

Next ==
  \/ Setup
  \/ OnTrainBatchStart
  \/ OnTrainBatchEnd
  \/ PrefixMetricKeys
  \/ HostContinue
  \/ HostSetLoggers
  \/ HostSetShouldUpdateLogs
  \/ HostAdvanceStep

Spec == Init /\ [][Next]_vars

\* ------------------------------------------------------ reading the trace
IsSampling == op \in SamplingOps
Label == <<op>>                     \* the `key` the sampling hook passes
N == Len(loggers)
Unskipped == should_update_logs
DeviceQueries == SelectSeq(calls, LAMBDA c : c.fn = "get_device_stats")
ProcessQueries == SelectSeq(calls, LAMBDA c : c.fn = "get_cpu_process_metrics")
LogCalls == SelectSeq(calls, LAMBDA c : c.fn = "log_metrics")
Notices == SelectSeq(calls, LAMBDA c : c.fn = "rank_zero_deprecation")
FailedQueries == SelectSeq(calls, LAMBDA c : ~c.outcome.ok)

\* a dict as a mathematical mapping
AsMap(d) == [k \in dict_keys(d) |-> dict_get(d, k)]
ReturnedMap(qs) == IF Len(qs) > 0 /\ qs[1].outcome.ok THEN AsMap(qs[1].outcome.val)
                   ELSE AsMap(EmptyDict)
DeviceMap == ReturnedMap(DeviceQueries)
ProcessMap == ReturnedMap(ProcessQueries)
\* union of both results, the process-metrics value on a shared key
Snapshot == [k \in DOMAIN DeviceMap \cup DOMAIN ProcessMap |->
               IF k \in DOMAIN ProcessMap THEN ProcessMap[k] ELSE DeviceMap[k]]
\* every key k of m renamed to label + separator + k, values unchanged
Rewritten(m, label, separator) ==
  [nk \in {label \o separator \o k : k \in DOMAIN m} |->
     m[CHOOSE k \in DOMAIN m : label \o separator \o k = nk]]

\* the log_metrics calls are one per logger, in the loggers' order, each with
\* the snapshot rewritten with that logger's separator, at the global step
FanOut ==
  /\ Len(LogCalls) = N
  /\ \A i \in 1..N :
       /\ LogCalls[i].logger = i
       /\ LogCalls[i].step = global_step
       /\ AsMap(LogCalls[i].metrics) = Rewritten(Snapshot, Label, loggers[i])

\* ------------------------------------------------------------------ C1
\* C1: whenever trainer.loggers is empty, setup and both sampling hooks raise
\* MisconfigurationException and call neither a logger nor a metrics query,
\* whether or not setup ran before and whether or not the call would be skipped.
C1_EmptySinksRaise ==
  (op \in SamplingOps \cup {"setup"} /\ N = 0)
    => (raised = "MisconfigurationException" /\ calls = <<>>)

C1_Witness ==
  /\ IsSampling /\ N = 0 /\ setup_ok /\ ~should_update_logs
  /\ raised = "MisconfigurationException"

\* ------------------------------------------------------------------ C2
\* C2: with at least one logger and should_update_logs false, a sampling call
\* makes no call at all (no query, no log_metrics), raises nothing and leaves
\* cpu_stats as it was.
C2_SkipHasNoEffect ==
  [][(op' \in SamplingOps /\ Len(loggers') >= 1 /\ ~should_update_logs')
       => (calls' = <<>> /\ raised' = "none" /\ cpu_stats' = cpu_stats)]_vars

C2_Witness ==
  /\ IsSampling /\ N >= 1 /\ ~should_update_logs
  /\ cpu_stats = "True" /\ root_device = "cuda" /\ raised = "none"

C4_ProcessQueryOnlyIf ==
  Len(ProcessQueries) > 0
    => (IsSampling /\ cpu_stats = "True" /\ root_device # "cpu")

C4_Witness ==
  /\ IsSampling /\ Unskipped /\ N >= 1 /\ cpu_stats = "True"
  /\ root_device = "cpu" /\ Len(DeviceQueries) = 1 /\ Len(ProcessQueries) = 0
  /\ Len(LogCalls) = N

\* ------------------------------------------------------------------ C5
\* C5 as stated: with cpu_stats unset or true, every sampling call makes exactly
\* one device-metrics query.
C5_Original ==
  (IsSampling /\ cpu_stats \in {"None", "True"}) => Len(DeviceQueries) = 1

\* C5 amended: with cpu_stats unset or true, every sampling call that has at
\* least one logger configured and is not skipped makes exactly one
\* device-metrics query, and makes it on the trainer's root device.
C5_DeviceQueryOnce ==
  (IsSampling /\ cpu_stats \in {"None", "True"} /\ N >= 1 /\ Unskipped)
    => (Len(DeviceQueries) = 1 /\ DeviceQueries[1].device = root_device)

C5_Witness ==
  /\ IsSampling /\ cpu_stats = "None" /\ N >= 1 /\ Unskipped
  /\ Len(DeviceQueries) = 1 /\ raised = "none"

\* ------------------------------------------------------------------ C6
\* C6 as stated: with cpu_stats = True and a non-CPU device, an unskipped
\* sampling call (with a logger to log to) makes the device query and the
\* process query exactly once each, the device query first, and logs the union
\* of both results with the process value on shared keys.
C6_Original ==
  (IsSampling /\ Unskipped /\ N >= 1 /\ cpu_stats = "True" /\ root_device # "cpu")
    => /\ Len(DeviceQueries) = 1 /\ Len(ProcessQueries) = 1
       /\ Len(calls) >= 2
       /\ calls[1].fn = "get_device_stats"
       /\ calls[2].fn = "get_cpu_process_metrics"
       /\ \A i \in DOMAIN LogCalls :
            AsMap(LogCalls[i].metrics) = Rewritten(Snapshot, Label, loggers[i])

\* C6 amended: with cpu_stats = True, a non-CPU device and at least one logger,
\* an unskipped sampling call makes the device query exactly once and first;
\* if that query returns normally it then makes the process query exactly
\* once; and every snapshot it logs is the union of both results with the
\* process-metrics value on every shared key.
C6_BothQueriesMerged ==
  (IsSampling /\ Unskipped /\ N >= 1 /\ cpu_stats = "True" /\ root_device # "cpu")
    => /\ Len(DeviceQueries) = 1
       /\ calls[1].fn = "get_device_stats"
       /\ calls[1].outcome.ok
            => /\ Len(ProcessQueries) = 1
               /\ calls[2].fn = "get_cpu_process_metrics"
       /\ \A i \in DOMAIN LogCalls :
            AsMap(LogCalls[i].metrics) = Rewritten(Snapshot, Label, loggers[i])

\* a shared key with two different values, and the process value logged
C6_Witness ==
  /\ IsSampling /\ Unskipped /\ N >= 1 /\ cpu_stats = "True" /\ root_device = "cuda"
  /\ raised = "none" /\ Len(LogCalls) = N
  /\ \E k \in DOMAIN DeviceMap \cap DOMAIN ProcessMap :
       /\ DeviceMap[k] # ProcessMap[k]
       /\ AsMap(LogCalls[1].metrics)[Label \o loggers[1] \o k] = ProcessMap[k]

\* ------------------------------------------------------------------ C7
\* C7: if a metrics query of a sampling call fails, the call raises that very
\* error, the failed query is the last call it makes (no retry), and it makes
\* no log_metrics call, also when the device query had already succeeded.
C7_QueryFailureAborts ==
  (IsSampling /\ Len(FailedQueries) > 0)
    => /\ Len(FailedQueries) = 1
       /\ raised = FailedQueries[1].outcome.err
       /\ calls[Len(calls)] = FailedQueries[1]
       /\ Len(LogCalls) = 0
       /\ Len(DeviceQueries) <= 1 /\ Len(ProcessQueries) <= 1

C7_Witness ==
  /\ IsSampling /\ N >= 1 /\ Len(DeviceQueries) = 1 /\ Len(ProcessQueries) = 1
  /\ DeviceQueries[1].outcome.ok /\ Len(DeviceQueries[1].outcome.val) > 0
  /\ ~ProcessQueries[1].outcome.ok /\ raised = "OSError"

\* ------------------------------------------------------------------ C8
\* C8: in every log_metrics call, for every logger in order, the forwarded
\* keys are pairwise distinct, there are as many as the merged snapshot has,
\* and each is label + that logger's separator + a key of the snapshot: the
\* prefix is applied once, and no other logger's or call's rewrite shows up.
C8_PrefixedOnce ==
  IsSampling =>
    \A i \in DOMAIN LogCalls :
      LET c == LogCalls[i]
      IN /\ c.logger = i
         /\ UniqueKeys(c.metrics)
         /\ Len(c.metrics) = Cardinality(DOMAIN Snapshot)
         /\ \A j \in DOMAIN c.metrics :
              \E k \in DOMAIN Snapshot :
                c.metrics[j].k = Label \o loggers[c.logger] \o k

\* two loggers with different separators, a snapshot of two keys, one of
\* which already looks prefixed
C8_Witness ==
  /\ op = "on_train_batch_start" /\ N = 2 /\ loggers[1] # loggers[2]
  /\ Len(LogCalls) = 2
  /\ Cardinality(DOMAIN Snapshot) = 2
  /\ <<"on_train_batch_start", "/", "a">> \in DOMAIN Snapshot

\* ------------------------------------------------------------------ C9
\* C9: prefix_metric_keys(metrics, prefix) returns one entry prefix + key (no
\* separator) per entry of the input, values unchanged, emits exactly one
\* deprecation notice, and returns what _prefix_metric_keys returns for the
\* empty separator.
C9_DeprecatedPrefix ==
  op = "prefix_metric_keys"
    => /\ Len(ret) = Len(args.metrics_dict)
       /\ UniqueKeys(ret)
       /\ AsMap(ret) = [nk \in {args.prefix \o k : k \in dict_keys(args.metrics_dict)} |->
                          dict_get(args.metrics_dict,
                                   CHOOSE k \in dict_keys(args.metrics_dict) :
                                     args.prefix \o k = nk)]
       /\ ret = _prefix_metric_keys(args.metrics_dict, args.prefix, <<>>)
       /\ Len(Notices) = 1 /\ Len(calls) = 1
       /\ raised = "none"

C9_Witness ==
  /\ op = "prefix_metric_keys" /\ args.prefix = <<"p">>
  /\ args.metrics_dict = <<[k |-> <<"a">>, v |-> 2]>>
  /\ ret = <<[k |-> <<"p", "a">>, v |-> 2]>>
  /\ Len(Notices) = 1

====
